---- MODULE Spec2Model ----
(***************************************************************************)
(* Caption video compositor of content-engine (lib/videoGenerator):        *)
(* getVideoInfo (ffprobe), wrapText, escapeText and generateVideo          *)
(* (ffmpeg filter graph + encoder process).                                *)
(*                                                                         *)
(* Text is a sequence of one-character strings.  Numbers are integers      *)
(* (whole seconds, whole pixels); NaN is the model value NaN.              *)
(***************************************************************************)
EXTENDS Integers, Sequences, FiniteSets, TLC

VARIABLES
    pc,              \* position of the call: see Init / InitWrap
    caption,         \* argument `caption` (generateVideo) / `text` (wrapText)
    maxChars,        \* argument `maxCharsPerLine` of wrapText
    lines,           \* value returned by wrapText
    fs,              \* font paths for which fs.existsSync is true
    probeCode,       \* exit code the ffprobe process closed with
    probeOut,        \* what ffprobe wrote to stdout (see ProbeOutputs)
    duration,        \* `duration` of the record getVideoInfo resolved with
    trimmedDuration,
    fontFile,
    startY,
    filterParts,     \* the stages, in the order they are joined with ';'
    args,            \* arguments ffmpeg is spawned with
    probeSpawns,     \* number of spawn('ffprobe', ...) calls
    ffmpegSpawns,    \* number of spawn('ffmpeg', ...) calls
    ffmpeg,          \* encoder process: "none", "running", "errored", "closed"
    outcome,         \* promise of generateVideo: "pending", "resolved", "rejected"
    result,          \* value resolved with / error rejected with
    stderr,          \* `stderr` accumulated from the encoder's data events
    dataEvents,      \* number of data events of the encoder's stderr so far
    ffmpegCode,      \* code the encoder process closed with
    response,        \* HTTP response of POST /generate-video
    peer,            \* a second generateVideo call in flight in the same process
    req,             \* the POST /generate-video request being handled (see Handle)
    batch            \* a generateBatch call and its POST /generate request

\* what the ffmpeg handlers and the request handler add to the call's state
encVars == <<stderr, dataEvents, ffmpegCode, response>>

genVars == <<fs, probeCode, probeOut, duration, trimmedDuration, fontFile, startY,
             filterParts, args, probeSpawns, ffmpegSpawns, ffmpeg, outcome, result,
             encVars>>

\* everything the first call owns
ownVars == <<pc, caption, maxChars, lines, genVars>>

vars == <<ownVars, peer, req, batch>>

\* ------------------------------------------------------------------ bounds
\* longest caption enumerated exhaustively over {"a", " "}
MaxLen == 5
\* longest line enumerated exhaustively over the reserved characters
MaxEscLen == 3
\* most captions of one generateBatch call
MaxCaptions == 3
\* budgets 0..MaxBudget are enumerated for wrapText called on its own
MaxBudget == 3
\* generateVideo is given captions that wrap to 1..MaxLines lines
MaxLines == 6
\* the encoder's stderr arrives in at most MaxChunks data events
MaxChunks == 2

\* --------------------------------------------------------- text helpers
SP == " "

Range(s) == { s[i] : i \in 1..Len(s) }

\* n copies of the character c
Rep(c, n) == [i \in 1..n |-> c]

RECURSIVE JoinWith(_, _)
\* Array.prototype.join(sep) on an array of strings
JoinWith(ls, sep) ==
    IF ls = <<>> THEN <<>>
    ELSE IF Len(ls) = 1 THEN ls[1]
    ELSE ls[1] \o sep \o JoinWith(Tail(ls), sep)

\* all texts over alphabet A of length 0..n
TextsUpTo(A, n) == UNION { [1..k -> A] : k \in 0..n }

\* ---------------------------------------------------------------- wrapText
RECURSIVE SplitFrom(_, _, _, _)
SplitFrom(text, i, cur, acc) ==
    IF i > Len(text) THEN Append(acc, cur)
    ELSE IF text[i] = SP THEN SplitFrom(text, i + 1, <<>>, Append(acc, cur))
    ELSE SplitFrom(text, i + 1, Append(cur, text[i]), acc)

\* text.split(' '): always at least one (possibly empty) word
Split(text) == SplitFrom(text, 1, <<>>, <<>>)

\* mutant of Fits: the separating space is not counted
FitsNoSpace(currentLine, word, max) ==
    Len(currentLine) + Len(word) <= max

\* currentLine.length + word.length + 1 <= maxCharsPerLine
Fits(currentLine, word, max) ==
    Len(currentLine) + Len(word) + 1 <= max

\* mutant of Extend: words are glued without the separating space
ExtendGlued(currentLine, word) ==
    IF currentLine # <<>> THEN currentLine \o word ELSE word

\* currentLine ? `${currentLine} ${word}` : word
Extend(currentLine, word) ==
    IF currentLine # <<>> THEN currentLine \o <<SP>> \o word ELSE word

\* mutant of Flush: the finished line is never pushed
FlushDropped(ls, currentLine) == ls

\* if (currentLine) lines.push(currentLine)
Flush(ls, currentLine) ==
    IF currentLine # <<>> THEN Append(ls, currentLine) ELSE ls

RECURSIVE WrapLoop(_, _, _, _, _)
WrapLoop(words, i, currentLine, ls, max) ==
    IF i > Len(words) THEN Flush(ls, currentLine)
    ELSE IF Fits(currentLine, words[i], max)
         THEN WrapLoop(words, i + 1, Extend(currentLine, words[i]), ls, max)
         ELSE WrapLoop(words, i + 1, words[i], Flush(ls, currentLine), max)

wrapText(text, max) == WrapLoop(Split(text), 1, <<>>, <<>>, max)

\* ------------------------------------------------------ scenario captions
HelloWorld == <<"H","e","l","l","o",SP,"w","o","r","l","d">>

\* five words of ten characters each, single-space separated
FiveWords ==
    JoinWith(<<Rep("a", 10), Rep("b", 10), Rep("c", 10), Rep("d", 10), Rep("e", 10)>>,
             <<SP>>)

WrapCaptions == TextsUpTo({"a", SP}, MaxLen) \cup {HelloWorld, FiveWords}
WrapBudgets == 0..MaxBudget \cup {28, 30}


\* ============================================================ generateVideo
OUTPUT_WIDTH == 1080
OUTPUT_HEIGHT == 1920
BANNER_HEIGHT == 346
VIDEO_TOP_OFFSET == 325
TRIM_START == 0
TRIM_END == 0
\* wrapText(caption, 28)
CaptionBudget == 28
lineHeight == 60
\* `|| 30` of getVideoInfo
FallbackDuration == 30

\* ---------------------------------------------------------- JS numbers
\* a JS number: an integer, or NaN
Num(n) == [nan |-> FALSE, v |-> n]
NaN == [nan |-> TRUE, v |-> 0]

\* a - b
Minus(a, b) == IF a.nan \/ b.nan THEN NaN ELSE Num(a.v - b.v)

\* Math.max(a, b): NaN if either argument is NaN
MathMax(a, b) ==
    IF a.nan \/ b.nan THEN NaN ELSE Num(IF a.v >= b.v THEN a.v ELSE b.v)

\* ---------------------------------------------------- JSON values read
Undefined == [t |-> "undefined", num |-> Num(0), s |-> <<>>]
JNum(n) == [t |-> "number", num |-> Num(n), s |-> <<>>]
JStr(chars) == [t |-> "string", num |-> Num(0), s |-> chars]

\* ToBoolean, as `||` applies it
Truthy(x) ==
    CASE x.t = "undefined" -> FALSE
      [] x.t = "number" -> ~x.num.nan /\ x.num.v # 0
      [] x.t = "string" -> x.s # <<>>

\* a || b
Or(a, b) == IF Truthy(a) THEN a ELSE b

DigitValue(c) ==
    CASE c = "0" -> 0 [] c = "1" -> 1 [] c = "2" -> 2 [] c = "3" -> 3 [] c = "4" -> 4
      [] c = "5" -> 5 [] c = "6" -> 6 [] c = "7" -> 7 [] c = "8" -> 8 [] c = "9" -> 9

Digits == {"0", "1", "2", "3", "4", "5", "6", "7", "8", "9"}

RECURSIVE ParseDigits(_, _, _, _)
\* the longest run of decimal digits of s from position i on; NaN if empty
ParseDigits(s, i, acc, seen) ==
    IF i <= Len(s) /\ s[i] \in Digits
    THEN ParseDigits(s, i + 1, 10 * acc + DigitValue(s[i]), TRUE)
    ELSE IF seen THEN Num(acc) ELSE NaN

\* parseFloat on the texts of the model: leading spaces are skipped, then the
\* longest prefix that is a (whole) decimal literal is read; no such prefix
\* gives NaN.  A number argument is converted to text and read back.
parseFloat(x) ==
    CASE x.t = "number" -> x.num
      [] x.t = "undefined" -> NaN
      [] x.t = "string" ->
            LET RECURSIVE Skip(_)
                Skip(i) == IF i <= Len(x.s) /\ x.s[i] = SP THEN Skip(i + 1) ELSE i
            IN ParseDigits(x.s, Skip(1), 0, FALSE)

\* stdout of ffprobe, after JSON.parse:
\*   invalid - JSON.parse throws
\*   null    - parses to null, so `info.format` throws inside the try
\*   object  - format?.duration and streams?.[0]?.duration as given
\*             (Undefined also stands for a missing format / empty streams)
DurationFields ==
    { Undefined, JNum(0), JNum(12), JStr(<<"0">>), JStr(<<"1", "2">>),
      JStr(<<>>), JStr(<<"N", "/", "A">>) }

ProbeOutputs ==
    { [json |-> "invalid", format |-> Undefined, stream |-> Undefined],
      [json |-> "null", format |-> Undefined, stream |-> Undefined] }
    \cup { [json |-> "object", format |-> f, stream |-> st] :
              f \in DurationFields, st \in DurationFields }

NoOutput == [json |-> "none", format |-> Undefined, stream |-> Undefined]

\* mutant of ProbedDuration: the fallback is missing
ProbedDurationNoFallback(out) ==
    parseFloat(Or(out.format, out.stream))

\* parseFloat(info.format?.duration || info.streams?.[0]?.duration || 30)
ProbedDuration(out) ==
    parseFloat(Or(Or(out.format, out.stream), JNum(FallbackDuration)))

\* ------------------------------------------------------------------ fonts
FONT_PATH == "./fonts/tiktok-sans-scm.ttf"
fallbacks ==
    << "/usr/share/fonts/truetype/dejavu/DejaVuSans.ttf",
       "/System/Library/Fonts/Helvetica.ttc",
       "/System/Library/Fonts/SFNSText.ttf" >>

\* mutant of ResolveFont: the last existing fallback wins, not the first
ResolveFontLastFallback(fontPath, files) ==
    IF fontPath \in files THEN fontPath
    ELSE IF \E i \in 1..Len(fallbacks) : fallbacks[i] \in files
         THEN fallbacks[CHOOSE i \in 1..Len(fallbacks) :
                           /\ fallbacks[i] \in files
                           /\ \A j \in (i + 1)..Len(fallbacks) : fallbacks[j] \notin files]
         ELSE "sans"

\* fontPath if it exists, else the first existing fallback, else 'sans'
ResolveFont(fontPath, files) ==
    IF fontPath \in files THEN fontPath
    ELSE IF \E i \in 1..Len(fallbacks) : fallbacks[i] \in files
         THEN fallbacks[CHOOSE i \in 1..Len(fallbacks) :
                           /\ fallbacks[i] \in files
                           /\ \A j \in 1..(i - 1) : fallbacks[j] \notin files]
         ELSE "sans"

\* ------------------------------------------------------------- escapeText
RECURSIVE ReplaceAll(_, _, _)
\* s.replace(/c/g, repl) for a one-character pattern
ReplaceAll(s, c, repl) ==
    IF s = <<>> THEN <<>>
    ELSE (IF Head(s) = c THEN repl ELSE <<Head(s)>>) \o ReplaceAll(Tail(s), c, repl)

BS == "\\"

\* mutant of escapeText: the backslash is replaced last, so the escaping
\* backslashes of the other replacements are escaped again
escapeTextBackslashLast(text) ==
    LET a == ReplaceAll(text, "'", <<BS, "'">>)
        b == ReplaceAll(a, ":", <<BS, ":">>)
        c == ReplaceAll(b, "[", <<BS, "[">>)
        d == ReplaceAll(c, "]", <<BS, "]">>)
    IN ReplaceAll(d, BS, <<BS, BS, BS, BS>>)

escapeText(text) ==
    LET a == ReplaceAll(text, BS, <<BS, BS, BS, BS>>)
        b == ReplaceAll(a, "'", <<BS, "'">>)
        c == ReplaceAll(b, ":", <<BS, ":">>)
        d == ReplaceAll(c, "[", <<BS, "[">>)
    IN ReplaceAll(d, "]", <<BS, "]">>)

\* ------------------------------------------------------------ the stages
\* a buffer label; idx is used by `banner_${i}` only
L(name) == [name |-> name, idx |-> -1]
BannerI(i) == [name |-> "banner_", idx |-> i]
\* the source stream [0:v]: an input of the encoder, not a stage output
SourceStream == L("0:v")

NoNum == Num(-1)

\* one ';'-separated part of the filter graph
Stage(op, ins, out, geom, d, font, text, y) ==
    [op |-> op, ins |-> ins, out |-> out, geom |-> geom, d |-> d,
     fontfile |-> font, text |-> text, y |-> y]

\* mutant of StartY: the block is not centred, it starts at the free height
StartYNotHalved(k) == BANNER_HEIGHT - k * lineHeight

\* mutant of StartY: the text height is added instead of subtracted
StartYAdded(k) == (BANNER_HEIGHT + k * lineHeight) \div 2

\* (BANNER_HEIGHT - lines.length * lineHeight) / 2
StartY(k) == (BANNER_HEIGHT - k * lineHeight) \div 2

\* Math.round(h / 2) for an integer h
RoundHalves(h) == (h + 1) \div 2

\* Math.round(startY + (i * lineHeight) + lineHeight / 2), i counted from 0
LineY(sy, i) == RoundHalves(2 * (sy + i * lineHeight) + lineHeight)

\* i === lines.length - 1 ? 'banner' : `banner_${i}`, i counted from 0
NewLabel(i, k) == IF i = k - 1 THEN L("banner") ELSE BannerI(i)

\* mutant of LastBannerLabel: every line is drawn on the blank banner
LastBannerLabelAlwaysBg(i, k) == L("banner_bg")

\* lastBannerLabel when line i (from 0) is reached
LastBannerLabel(i, k) == IF i = 0 THEN L("banner_bg") ELSE NewLabel(i - 1, k)

\* the three stages filterParts is created with
HeadStages(td) ==
    << Stage("scale,crop,setsar", <<SourceStream>>, L("scaled"),
             <<OUTPUT_WIDTH, OUTPUT_HEIGHT - VIDEO_TOP_OFFSET>>, NoNum, "", <<>>, 0),
       Stage("color=black", <<>>, L("bg"),
             <<OUTPUT_WIDTH, OUTPUT_HEIGHT>>, td, "", <<>>, 0),
       Stage("color=white", <<>>, L("banner_bg"),
             <<OUTPUT_WIDTH, BANNER_HEIGHT>>, td, "", <<>>, 0) >>

\* lines.forEach: one drawtext stage per line
TextStages(ls, sy, font) ==
    [n \in 1..Len(ls) |->
        Stage("drawtext", <<LastBannerLabel(n - 1, Len(ls))>>, NewLabel(n - 1, Len(ls)),
              <<0, 0>>, NoNum, font, escapeText(ls[n]), LineY(sy, n - 1))]

\* mutant of TailStages: the fade stage is left out
TailStagesNoFade ==
    << Stage("overlay", <<L("bg"), L("scaled")>>, L("with_video"),
             <<0, VIDEO_TOP_OFFSET>>, NoNum, "", <<>>, 0),
       Stage("overlay", <<L("with_video"), L("banner")>>, L("composed"),
             <<0, 0>>, NoNum, "", <<>>, 0) >>

\* the three stages pushed last
TailStages ==
    << Stage("overlay", <<L("bg"), L("scaled")>>, L("with_video"),
             <<0, VIDEO_TOP_OFFSET>>, NoNum, "", <<>>, 0),
       Stage("overlay", <<L("with_video"), L("banner")>>, L("composed"),
             <<0, 0>>, NoNum, "", <<>>, 0),
       Stage("fade", <<L("composed")>>, L("out"),
             <<0, 1>>, NoNum, "", <<>>, 0) >>

\* filterParts as joined into filterComplex
BuildFilterParts(ls, sy, td, font) ==
    HeadStages(td) \o TextStages(ls, sy, font) \o TailStages

INPUT_PATH == "library/scenario.mp4"
OUTPUT_PATH == "output/video.mp4"

\* the argument list of spawn('ffmpeg', args)
EncoderArgs(parts, td) ==
    [ss |-> TRIM_START, i |-> INPUT_PATH, filter_complex |-> parts,
     map |-> <<L("out")>>, map_audio |-> "0:a?", t |-> td, output |-> OUTPUT_PATH]

NoArgs ==
    [ss |-> 0, i |-> "", filter_complex |-> <<>>, map |-> <<>>, map_audio |-> "",
     t |-> NoNum, output |-> ""]

\* ----------------------------------------------------- captions given
\* k words of 14 characters: no two of them fit on one line of 28
ManyLines(k) == JoinWith([n \in 1..k |-> Rep("w", 14)], <<SP>>)

GenCaptions ==
    { <<>>, <<SP>>, <<SP, SP>>, <<SP, "a">>, HelloWorld, FiveWords,
      <<"i", "t", "'", "s">>, <<"[", "a", "]", ":", BS>>, Rep("x", 29) }
    \cup { ManyLines(k) : k \in 1..MaxLines }

\* kind: which value / which Error message; code: the exit code the message
\* carries (0: none); value: the path resolved with; detail: text of stderr
\* the message carries
NoResult == [kind |-> "none", code |-> 0, value |-> "", detail |-> <<>>]

NoResponse == [status |-> 0, error |-> "", detail |-> "", failedStep |-> ""]

\* String.prototype.slice(-n)
SliceLast(s, n) == IF Len(s) <= n THEN s ELSE SubSeq(s, Len(s) - n + 1, Len(s))

\* stderr.slice(-500) of the rejection message
ERROR_TAIL == 500

\* mutant of ErrorTail: the 2000 characters of the log line are used
ErrorTailAsLogged(s) == SliceLast(s, 2000)

ErrorTail(s) == SliceLast(s, ERROR_TAIL)

NoSuchFilter == <<"N","o",SP,"s","u","c","h",SP,"f","i","l","t","e","r">>

\* the texts a data event of the encoder's stderr delivers
StderrChunks == { NoSuchFilter, Rep(".", ERROR_TAIL) }

\* generateVideo called directly with inputPath INPUT_PATH and outputPath
\* OUTPUT_PATH: no HTTP request is modelled, no earlier request was served
DirectCall ==
    [scenario |-> "scenario", video_url |-> "", library |-> {"scenario"},
     inputPath |-> INPUT_PATH, filename |-> "video.mp4", outputPath |-> OUTPUT_PATH,
     sent |-> 0, returned |-> FALSE, served |-> 0, issued |-> {}, produced |-> {}]

\* no generateBatch call
NoBatch ==
    [state |-> "absent", captions |-> <<>>, batchId |-> "", i |-> 0,
     results |-> <<>>, files |-> {}, response |-> NoResponse, images |-> <<>>]

\* no second call
NoPeer ==
    [pc |-> "absent", probeCode |-> -1, probeOut |-> NoOutput, duration |-> NoNum,
     trimmedDuration |-> NoNum, fontFile |-> "", lines |-> <<>>, startY |-> 0,
     filterParts |-> <<>>, args |-> NoArgs, probeSpawns |-> 0, ffmpegSpawns |-> 0,
     ffmpeg |-> "none", ffmpegCode |-> 0, outcome |-> "pending", result |-> NoResult]

\* positions at which a call still has handlers to run
Live == {"call", "probing", "probed", "encoding"}

\* the Node process exits on an uncaught exception: a call in flight never
\* runs another handler
Crash(p) == IF p.pc \in Live THEN [p EXCEPT !.pc = "crashed"] ELSE p

\* the state of generateVideo's variables before it is called
GenIdle ==
    /\ fs = {}
    /\ probeCode = -1
    /\ probeOut = NoOutput
    /\ duration = NoNum
    /\ trimmedDuration = NoNum
    /\ fontFile = ""
    /\ startY = 0
    /\ filterParts = <<>>
    /\ args = NoArgs
    /\ probeSpawns = 0
    /\ ffmpegSpawns = 0
    /\ ffmpeg = "none"
    /\ outcome = "pending"
    /\ result = NoResult
    /\ stderr = <<>>
    /\ dataEvents = 0
    /\ ffmpegCode = 0
    /\ response = NoResponse

\* generateVideo({inputPath, outputPath, caption, fontPath}) has been called
Init ==
    /\ pc = "call"
    /\ caption \in GenCaptions
    /\ maxChars = CaptionBudget
    /\ lines = <<>>
    /\ fs \in SUBSET ({FONT_PATH} \cup Range(fallbacks))
    /\ probeCode = -1
    /\ probeOut = NoOutput
    /\ duration = NoNum
    /\ trimmedDuration = NoNum
    /\ fontFile = ""
    /\ startY = 0
    /\ filterParts = <<>>
    /\ args = NoArgs
    /\ probeSpawns = 0
    /\ ffmpegSpawns = 0
    /\ ffmpeg = "none"
    /\ outcome = "pending"
    /\ result = NoResult
    /\ stderr = <<>>
    /\ dataEvents = 0
    /\ ffmpegCode = 0
    /\ response = NoResponse
    /\ peer = NoPeer
    /\ req = DirectCall
    /\ batch = NoBatch

\* getVideoInfo: spawn('ffprobe', ...)
SpawnProbe ==
    /\ pc = "call"
    /\ pc' = "probing"
    /\ probeSpawns' = probeSpawns + 1
    /\ UNCHANGED <<caption, maxChars, lines, fs, probeCode, probeOut, duration,
                   trimmedDuration, fontFile, startY, filterParts, args,
                   ffmpegSpawns, ffmpeg, outcome, result, encVars>>
    /\ UNCHANGED <<peer, req, batch>>

\* ffprobe cannot be launched: the child emits 'error', for which getVideoInfo
\* registers no listener, so the event is thrown as an uncaught exception; no
\* handler of this call, or of any other call of the process, runs again and the
\* promise stays pending
ProbeLaunchError ==
    /\ pc = "probing"
    /\ pc' = "crashed"
    /\ peer' = Crash(peer)
    /\ UNCHANGED <<caption, maxChars, lines, genVars>>
    /\ UNCHANGED <<req, batch>>

\* mutant of ProbeClose: a failed probe is recovered with the fallback duration
ProbeCloseRecovering ==
    /\ pc = "probing"
    /\ \E code \in {0, 1}, out \in ProbeOutputs :
          /\ probeCode' = code
          /\ probeOut' = out
          /\ duration' = IF code = 0 /\ out.json = "object"
                         THEN ProbedDuration(out)
                         ELSE Num(FallbackDuration)
    /\ pc' = "probed"
    /\ UNCHANGED <<caption, maxChars, lines, fs, trimmedDuration, fontFile, startY,
                   filterParts, args, probeSpawns, ffmpegSpawns, ffmpeg, outcome,
                   result, encVars>>
    /\ UNCHANGED <<peer, req, batch>>

\* mutant of ProbeClose: the exit code is not tested, the output is parsed
\* whatever the code
ProbeCloseIgnoringCode ==
    /\ pc = "probing"
    /\ \E code \in {0, 1}, out \in ProbeOutputs :
          /\ probeCode' = code
          /\ probeOut' = out
          /\ IF out.json = "object"
             THEN /\ duration' = ProbedDuration(out)
                  /\ pc' = "probed"
                  /\ UNCHANGED <<outcome, result>>
             ELSE /\ pc' = "done"
                  /\ outcome' = "rejected"
                  /\ result' = [kind |-> "Failed to parse ffprobe output",
                                code |-> 0, value |-> "", detail |-> <<>>]
                  /\ UNCHANGED duration
    /\ UNCHANGED <<caption, maxChars, lines, fs, trimmedDuration, fontFile, startY,
                   filterParts, args, probeSpawns, ffmpegSpawns, ffmpeg, encVars>>
    /\ UNCHANGED <<peer, req, batch>>

\* ffprobe.on('close'): resolve({duration}) or reject
ProbeClose ==
    /\ pc = "probing"
    /\ \E code \in {0, 1}, out \in ProbeOutputs :
          /\ probeCode' = code
          /\ probeOut' = out
          /\ IF code = 0
             THEN IF out.json = "object"
                  THEN /\ duration' = ProbedDuration(out)
                       /\ pc' = "probed"
                       /\ UNCHANGED <<outcome, result>>
                  ELSE /\ pc' = "done"
                       /\ outcome' = "rejected"
                       /\ result' = [kind |-> "Failed to parse ffprobe output",
                                     code |-> 0, value |-> "", detail |-> <<>>]
                       /\ UNCHANGED duration
             ELSE /\ pc' = "done"
                  /\ outcome' = "rejected"
                  /\ result' = [kind |-> "ffprobe exited with code",
                                code |-> code, value |-> "", detail |-> <<>>]
                  /\ UNCHANGED duration
    /\ UNCHANGED <<caption, maxChars, lines, fs, trimmedDuration, fontFile, startY,
                   filterParts, args, probeSpawns, ffmpegSpawns, ffmpeg, encVars>>
    /\ UNCHANGED <<peer, req, batch>>

\* mutant of BuildAndSpawn: the probe is not awaited
BuildAndSpawnUnawaited ==
    /\ pc \in {"probing", "probed"}
    /\ LET td == MathMax(Num(1), Minus(Minus(duration, Num(TRIM_START)), Num(TRIM_END)))
           font == ResolveFont(FONT_PATH, fs)
           ls == wrapText(caption, maxChars)
           sy == StartY(Len(ls))
           parts == BuildFilterParts(ls, sy, td, font)
       IN /\ trimmedDuration' = td
          /\ fontFile' = font
          /\ lines' = ls
          /\ startY' = sy
          /\ filterParts' = parts
          /\ args' = [EncoderArgs(parts, td) EXCEPT !.i = req.inputPath,
                                                     !.output = req.outputPath]
    /\ ffmpegSpawns' = ffmpegSpawns + 1
    /\ ffmpeg' = "running"
    /\ pc' = "encoding"
    /\ UNCHANGED <<caption, maxChars, fs, probeCode, probeOut, duration,
                   probeSpawns, outcome, result, encVars>>
    /\ UNCHANGED <<peer, req, batch>>

\* generateVideo after the await: trim, font, layout, stages, spawn('ffmpeg', args)
BuildAndSpawn ==
    /\ pc = "probed"
    /\ LET td == MathMax(Num(1), Minus(Minus(duration, Num(TRIM_START)), Num(TRIM_END)))
           font == ResolveFont(FONT_PATH, fs)
           ls == wrapText(caption, maxChars)
           sy == StartY(Len(ls))
           parts == BuildFilterParts(ls, sy, td, font)
       IN /\ trimmedDuration' = td
          /\ fontFile' = font
          /\ lines' = ls
          /\ startY' = sy
          /\ filterParts' = parts
          /\ args' = [EncoderArgs(parts, td) EXCEPT !.i = req.inputPath,
                                                     !.output = req.outputPath]
    /\ ffmpegSpawns' = ffmpegSpawns + 1
    /\ ffmpeg' = "running"
    /\ pc' = "encoding"
    /\ UNCHANGED <<caption, maxChars, fs, probeCode, probeOut, duration,
                   probeSpawns, outcome, result, encVars>>
    /\ UNCHANGED <<peer, req, batch>>

\* mutant of FfmpegError: the 'error' event does not settle the promise
FfmpegErrorNotRejecting ==
    /\ pc = "encoding"
    /\ ffmpeg = "running"
    /\ ffmpeg' = "errored"
    /\ UNCHANGED <<pc, caption, maxChars, lines, fs, probeCode, probeOut, duration,
                   trimmedDuration, fontFile, startY, filterParts, args,
                   probeSpawns, ffmpegSpawns, outcome, result, encVars>>
    /\ UNCHANGED <<peer, req, batch>>

\* ffmpeg.on('error'): the process could not be launched
FfmpegError ==
    /\ pc = "encoding"
    /\ ffmpeg = "running"
    /\ ffmpeg' = "errored"
    /\ IF outcome = "pending"
       THEN /\ outcome' = "rejected"
            /\ result' = [kind |-> "ffmpeg spawn error", code |-> 0, value |-> "",
                          detail |-> <<>>]
       ELSE UNCHANGED <<outcome, result>>
    /\ UNCHANGED <<pc, caption, maxChars, lines, fs, probeCode, probeOut, duration,
                   trimmedDuration, fontFile, startY, filterParts, args,
                   probeSpawns, ffmpegSpawns, encVars>>
    /\ UNCHANGED <<peer, req, batch>>

\* ffmpeg.stderr.on('data'): stderr += data (the frame= progress line is only
\* written to stdout)
FfmpegStderr ==
    /\ pc = "encoding"
    /\ ffmpeg = "running"
    /\ dataEvents < MaxChunks
    /\ dataEvents' = dataEvents + 1
    /\ \E data \in StderrChunks : stderr' = stderr \o data
    /\ UNCHANGED <<pc, caption, maxChars, lines, fs, probeCode, probeOut, duration,
                   trimmedDuration, fontFile, startY, filterParts, args,
                   probeSpawns, ffmpegSpawns, ffmpeg, outcome, result,
                   ffmpegCode, response>>
    /\ UNCHANGED <<peer, req, batch>>

\* mutant of FfmpegClose: a non-zero exit launches the encoder once more
FfmpegCloseRetrying ==
    /\ pc = "encoding"
    /\ ffmpeg \in {"running", "errored"}
    /\ \E code \in (IF ffmpeg = "running" THEN {0, 1} ELSE {-2}) :
          /\ ffmpegCode' = code
          /\ IF code # 0 /\ ffmpegSpawns < 2
             THEN /\ ffmpegSpawns' = ffmpegSpawns + 1
                  /\ ffmpeg' = "running"
                  /\ pc' = "encoding"
                  /\ UNCHANGED <<outcome, result>>
             ELSE /\ ffmpeg' = "closed"
                  /\ pc' = "done"
                  /\ UNCHANGED ffmpegSpawns
                  /\ IF outcome = "pending"
                     THEN IF code = 0
                          THEN /\ outcome' = "resolved"
                               /\ result' = [kind |-> "outputPath", code |-> 0,
                                             value |-> args.output, detail |-> <<>>]
                          ELSE /\ outcome' = "rejected"
                               /\ result' = [kind |-> "ffmpeg failed", code |-> 0,
                                             value |-> "", detail |-> ErrorTail(stderr)]
                     ELSE UNCHANGED <<outcome, result>>
    /\ UNCHANGED <<caption, maxChars, lines, fs, probeCode, probeOut, duration,
                   trimmedDuration, fontFile, startY, filterParts, args,
                   probeSpawns, stderr, dataEvents, response>>
    /\ UNCHANGED <<peer, req, batch>>

\* mutant of FfmpegClose: the close event decides the outcome even when the
\* error event already has
FfmpegCloseResettling ==
    /\ pc = "encoding"
    /\ ffmpeg \in {"running", "errored"}
    /\ \E code \in (IF ffmpeg = "running" THEN {0, 1} ELSE {-2, 0}) :
          /\ ffmpegCode' = code
          /\ IF code = 0
             THEN /\ outcome' = "resolved"
                  /\ result' = [kind |-> "outputPath", code |-> 0,
                                value |-> args.output, detail |-> <<>>]
             ELSE /\ outcome' = "rejected"
                  /\ result' = [kind |-> "ffmpeg failed", code |-> 0,
                                value |-> "", detail |-> ErrorTail(stderr)]
    /\ ffmpeg' = "closed"
    /\ pc' = "done"
    /\ UNCHANGED <<caption, maxChars, lines, fs, probeCode, probeOut, duration,
                   trimmedDuration, fontFile, startY, filterParts, args,
                   probeSpawns, ffmpegSpawns, stderr, dataEvents, response>>
    /\ UNCHANGED <<peer, req, batch>>

\* ffmpeg.on('close'): resolve(outputPath) on code 0, reject otherwise with
\* `ffmpeg failed: ${stderr.slice(-500)}` (the code is only logged); a process
\* that failed to launch closes with a negative code
FfmpegClose ==
    /\ pc = "encoding"
    /\ ffmpeg \in {"running", "errored"}
    /\ \E code \in (IF ffmpeg = "running" THEN {0, 1} ELSE {-2}) :
          /\ ffmpegCode' = code
          /\ IF outcome = "pending"
             THEN IF code = 0
                  THEN /\ outcome' = "resolved"
                       /\ result' = [kind |-> "outputPath", code |-> 0,
                                     value |-> args.output, detail |-> <<>>]
                  ELSE /\ outcome' = "rejected"
                       /\ result' = [kind |-> "ffmpeg failed", code |-> 0,
                                     value |-> "", detail |-> ErrorTail(stderr)]
             ELSE UNCHANGED <<outcome, result>>
    /\ ffmpeg' = "closed"
    /\ pc' = "done"
    /\ UNCHANGED <<caption, maxChars, lines, fs, probeCode, probeOut, duration,
                   trimmedDuration, fontFile, startY, filterParts, args,
                   probeSpawns, ffmpegSpawns, stderr, dataEvents, response>>
    /\ UNCHANGED <<peer, req, batch>>

\* the resolved value carries a metrics record (result.metrics is defined)
HasMetrics(res) == res.kind = "outputPath and metrics"

\* mutant of Respond: the catch tags the response with the step that failed
RespondTaggingStep ==
    /\ outcome # "pending"
    /\ response = NoResponse
    /\ response' =
          IF outcome = "resolved" /\ HasMetrics(result)
          THEN [status |-> 200, error |-> "", detail |-> "", failedStep |-> ""]
          ELSE [status |-> 500, error |-> "VIDEO_GENERATION_FAILED",
                detail |-> (IF outcome = "resolved"
                            THEN "TypeError: result.metrics is undefined"
                            ELSE result.kind),
                failedStep |-> (IF result.kind \in {"ffprobe exited with code",
                                                    "Failed to parse ffprobe output"}
                                THEN "probe" ELSE "encode")]
    /\ UNCHANGED <<pc, caption, maxChars, lines, fs, probeCode, probeOut, duration,
                   trimmedDuration, fontFile, startY, filterParts, args,
                   probeSpawns, ffmpegSpawns, ffmpeg, outcome, result,
                   stderr, dataEvents, ffmpegCode>>
    /\ req' = [req EXCEPT !.sent = @ + 1, !.returned = TRUE]
    /\ UNCHANGED <<peer, batch>>

\* mutant of Respond: the catch block logs the failure and sends nothing
RespondSilentOnFailure ==
    /\ outcome # "pending"
    /\ ~req.returned
    /\ IF outcome = "resolved" /\ HasMetrics(result)
       THEN /\ response' = [status |-> 200, error |-> "", detail |-> "",
                            failedStep |-> ""]
            /\ req' = [req EXCEPT !.sent = @ + 1, !.returned = TRUE]
       ELSE /\ UNCHANGED response
            /\ req' = [req EXCEPT !.returned = TRUE]
    /\ UNCHANGED <<pc, caption, maxChars, lines, fs, probeCode, probeOut, duration,
                   trimmedDuration, fontFile, startY, filterParts, args,
                   probeSpawns, ffmpegSpawns, ffmpeg, outcome, result,
                   stderr, dataEvents, ffmpegCode>>
    /\ UNCHANGED <<peer, batch>>

\* POST /generate-video after `await generateVideo(...)`: the 200 response is
\* built from result.metrics; reading it from a value without metrics throws
\* inside the try, and the catch answers 500 with failedStep 'ffmpeg', as it
\* does for every rejection
Respond ==
    /\ outcome # "pending"
    /\ response = NoResponse
    /\ response' =
          IF outcome = "resolved" /\ HasMetrics(result)
          THEN [status |-> 200, error |-> "", detail |-> "", failedStep |-> ""]
          ELSE [status |-> 500, error |-> "VIDEO_GENERATION_FAILED",
                detail |-> (IF outcome = "resolved"
                            THEN "TypeError: result.metrics is undefined"
                            ELSE result.kind),
                failedStep |-> "ffmpeg"]
    /\ UNCHANGED <<pc, caption, maxChars, lines, fs, probeCode, probeOut, duration,
                   trimmedDuration, fontFile, startY, filterParts, args,
                   probeSpawns, ffmpegSpawns, ffmpeg, outcome, result,
                   stderr, dataEvents, ffmpegCode>>
    /\ req' = [req EXCEPT !.sent = @ + 1, !.returned = TRUE]
    /\ UNCHANGED <<peer, batch>>

Next ==
    \/ SpawnProbe \/ ProbeLaunchError \/ ProbeClose
    \/ BuildAndSpawn \/ FfmpegError \/ FfmpegClose \/ Respond

\* one request whose encoder writes nothing to stderr
Spec == Init /\ [][Next]_vars

\* one request, caption and fonts fixed, whose encoder writes to stderr
InitStderr == Init /\ caption = HelloWorld /\ fs = {FONT_PATH}

NextStderr == Next \/ FfmpegStderr

SpecStderr == InitStderr /\ [][NextStderr]_vars

\* one request under the assumption that every handler that can run does run
\* and every spawned process either fails to launch or exits
\* (weak fairness of BuildAndSpawn spelled out: it is enabled exactly when
\* pc = "probed")
Live_BuildAndSpawn == []<>(pc # "probed") \/ []<><<BuildAndSpawn>>_vars

SpecLive ==
    /\ InitStderr /\ [][Next]_vars
    /\ WF_vars(SpawnProbe)
    /\ WF_vars(ProbeLaunchError \/ ProbeClose)
    /\ Live_BuildAndSpawn
    /\ WF_vars(FfmpegError \/ FfmpegClose)
    /\ WF_vars(Respond)

\* ------------------------------------- two calls in flight in one process
\* the handlers of the second call: the same code as above run on the second
\* call's own closure (its locals are the fields of `peer`); inputPath, caption
\* and fontPath are the first call's, outputPath is its own
PEER_OUTPUT_PATH == "output/video_2.mp4"

PeerCalled == [NoPeer EXCEPT !.pc = "call"]

\* getVideoInfo: spawn('ffprobe', ...)
PeerSpawnProbe ==
    /\ peer.pc = "call"
    /\ peer' = [peer EXCEPT !.pc = "probing", !.probeSpawns = @ + 1]
    /\ UNCHANGED ownVars
    /\ UNCHANGED <<req, batch>>

\* the second call's ffprobe cannot be launched: uncaught exception
PeerProbeLaunchError ==
    /\ peer.pc = "probing"
    /\ peer' = [peer EXCEPT !.pc = "crashed"]
    /\ pc' = IF pc \in Live THEN "crashed" ELSE pc
    /\ UNCHANGED <<caption, maxChars, lines, genVars>>
    /\ UNCHANGED <<req, batch>>

\* ffprobe.on('close')
PeerProbeClose ==
    /\ peer.pc = "probing"
    /\ \E code \in {0, 1}, out \in ProbeOutputs :
          peer' =
             IF code = 0
             THEN IF out.json = "object"
                  THEN [peer EXCEPT !.probeCode = code, !.probeOut = out,
                                    !.duration = ProbedDuration(out),
                                    !.pc = "probed"]
                  ELSE [peer EXCEPT !.probeCode = code, !.probeOut = out,
                                    !.pc = "done", !.outcome = "rejected",
                                    !.result = [kind |-> "Failed to parse ffprobe output",
                                                code |-> 0, value |-> "",
                                                detail |-> <<>>]]
             ELSE [peer EXCEPT !.probeCode = code, !.probeOut = out,
                               !.pc = "done", !.outcome = "rejected",
                               !.result = [kind |-> "ffprobe exited with code",
                                           code |-> code, value |-> "",
                                           detail |-> <<>>]]
    /\ UNCHANGED ownVars
    /\ UNCHANGED <<req, batch>>

\* generateVideo after the await
PeerBuildAndSpawn ==
    /\ peer.pc = "probed"
    /\ LET td == MathMax(Num(1), Minus(Minus(peer.duration, Num(TRIM_START)),
                                       Num(TRIM_END)))
           font == ResolveFont(FONT_PATH, fs)
           ls == wrapText(caption, maxChars)
           sy == StartY(Len(ls))
           parts == BuildFilterParts(ls, sy, td, font)
       IN peer' = [peer EXCEPT !.trimmedDuration = td, !.fontFile = font,
                               !.lines = ls, !.startY = sy, !.filterParts = parts,
                               !.args = [EncoderArgs(parts, td)
                                            EXCEPT !.output = PEER_OUTPUT_PATH],
                               !.ffmpegSpawns = @ + 1, !.ffmpeg = "running",
                               !.pc = "encoding"]
    /\ UNCHANGED ownVars
    /\ UNCHANGED <<req, batch>>

\* ffmpeg.on('error')
PeerFfmpegError ==
    /\ peer.pc = "encoding"
    /\ peer.ffmpeg = "running"
    /\ peer' = IF peer.outcome = "pending"
               THEN [peer EXCEPT !.ffmpeg = "errored", !.outcome = "rejected",
                                 !.result = [kind |-> "ffmpeg spawn error", code |-> 0,
                                             value |-> "", detail |-> <<>>]]
               ELSE [peer EXCEPT !.ffmpeg = "errored"]
    /\ UNCHANGED ownVars
    /\ UNCHANGED <<req, batch>>

\* ffmpeg.on('close'); this encoder writes nothing to stderr
PeerFfmpegClose ==
    /\ peer.pc = "encoding"
    /\ peer.ffmpeg \in {"running", "errored"}
    /\ \E code \in (IF peer.ffmpeg = "running" THEN {0, 1} ELSE {-2}) :
          peer' =
             IF peer.outcome = "pending"
             THEN IF code = 0
                  THEN [peer EXCEPT !.ffmpegCode = code, !.ffmpeg = "closed",
                                    !.pc = "done", !.outcome = "resolved",
                                    !.result = [kind |-> "outputPath", code |-> 0,
                                                value |-> peer.args.output,
                                                detail |-> <<>>]]
                  ELSE [peer EXCEPT !.ffmpegCode = code, !.ffmpeg = "closed",
                                    !.pc = "done", !.outcome = "rejected",
                                    !.result = [kind |-> "ffmpeg failed", code |-> 0,
                                                value |-> "",
                                                detail |-> ErrorTail(<<>>)]]
             ELSE [peer EXCEPT !.ffmpegCode = code, !.ffmpeg = "closed",
                               !.pc = "done"]
    /\ UNCHANGED ownVars
    /\ UNCHANGED <<req, batch>>

\* both calls made, same caption, same fonts
InitTwo ==
    /\ pc = "call"
    /\ caption = HelloWorld
    /\ maxChars = CaptionBudget
    /\ lines = <<>>
    /\ GenIdle
    /\ peer = PeerCalled
    /\ req = DirectCall
    /\ batch = NoBatch

NextTwo ==
    \/ SpawnProbe \/ ProbeLaunchError \/ ProbeClose
    \/ BuildAndSpawn \/ FfmpegError \/ FfmpegClose
    \/ PeerSpawnProbe \/ PeerProbeLaunchError \/ PeerProbeClose
    \/ PeerBuildAndSpawn \/ PeerFfmpegError \/ PeerFfmpegClose

SpecTwo == InitTwo /\ [][NextTwo]_vars

\* -------------------------------------------- POST /generate-video handler
LIBRARY_PATH == "./library"
OUTPUT_DIR == "./output"

\* request bodies: scenario absent or given, video_url absent or given
Scenarios == {"", "demo"}
VideoUrls == {"", "https://cdn.example/clip.mp4"}
\* scenarios that have a file <scenario>.mp4 in the library
Libraries == {{}, {"demo"}}
\* captions of request bodies ("" is falsy, as an absent caption is)
ServerCaptions == {<<>>, HelloWorld}
\* values uuidv4().substring(0, 8) can return
VideoIds == {"1a2b3c4d", "9f8e7d6c"}
\* requests handled one after the other by the process
MaxRequests == 2

\* path.join(LIBRARY_PATH, `${scenario}.mp4`), as its pieces
LibraryFile(scenario) == <<LIBRARY_PATH, "/", scenario, ".mp4">>
\* `video_${scenario}_${videoId}.mp4`, as its pieces
Filename(scenario, videoId) == <<"video_", scenario, "_", videoId, ".mp4">>
\* path.join(OUTPUT_DIR, filename)
OutputFile(filename) == <<OUTPUT_DIR, "/">> \o filename

MissingParams ==
    [status |-> 400, error |-> "MISSING_PARAMS",
     detail |-> "scenario and caption are required", failedStep |-> "validate"]

VideoNotFound ==
    [status |-> 404, error |-> "VIDEO_NOT_FOUND",
     detail |-> "Video not found in library", failedStep |-> "lookup"]

\* a request body has arrived; nothing of the handler has run
Arrived(scenario, url, library) ==
    [scenario |-> scenario, video_url |-> url, library |-> library,
     inputPath |-> <<>>, filename |-> <<>>, outputPath |-> <<>>,
     sent |-> 0, returned |-> FALSE, served |-> 0, issued |-> {}, produced |-> {}]

\* mutant of Handle: the library is consulted even when video_url is given
HandleLookupAlways ==
    /\ pc = "request"
    /\ IF req.scenario = "" \/ caption = <<>>
       THEN /\ response' = MissingParams
            /\ req' = [req EXCEPT !.sent = @ + 1, !.returned = TRUE]
            /\ pc' = "answered"
       ELSE IF req.scenario \notin req.library
       THEN /\ response' = VideoNotFound
            /\ req' = [req EXCEPT !.sent = @ + 1, !.returned = TRUE]
            /\ pc' = "answered"
       ELSE /\ \E videoId \in VideoIds :
                 req' = [req EXCEPT
                    !.inputPath = IF req.video_url # "" THEN <<req.video_url>>
                                  ELSE LibraryFile(req.scenario),
                    !.filename = Filename(req.scenario, videoId),
                    !.outputPath = OutputFile(Filename(req.scenario, videoId))]
            /\ pc' = "call"
            /\ UNCHANGED response
    /\ UNCHANGED <<caption, maxChars, lines, fs, probeCode, probeOut, duration,
                   trimmedDuration, fontFile, startY, filterParts, args,
                   probeSpawns, ffmpegSpawns, ffmpeg, outcome, result,
                   stderr, dataEvents, ffmpegCode, peer, batch>>

\* the handler up to the call of generateVideo: validate, look the input up,
\* name the output
Handle ==
    /\ pc = "request"
    /\ IF req.scenario = "" \/ caption = <<>>
       THEN /\ response' = MissingParams
            /\ req' = [req EXCEPT !.sent = @ + 1, !.returned = TRUE]
            /\ pc' = "answered"
       ELSE IF req.video_url = "" /\ req.scenario \notin req.library
       THEN /\ response' = VideoNotFound
            /\ req' = [req EXCEPT !.sent = @ + 1, !.returned = TRUE]
            /\ pc' = "answered"
       ELSE /\ \E videoId \in VideoIds :
                 req' = [req EXCEPT
                    !.inputPath = IF req.video_url # "" THEN <<req.video_url>>
                                  ELSE LibraryFile(req.scenario),
                    !.filename = Filename(req.scenario, videoId),
                    !.outputPath = OutputFile(Filename(req.scenario, videoId))]
            /\ pc' = "call"
            /\ UNCHANGED response
    /\ UNCHANGED <<caption, maxChars, lines, fs, probeCode, probeOut, duration,
                   trimmedDuration, fontFile, startY, filterParts, args,
                   probeSpawns, ffmpegSpawns, ffmpeg, outcome, result,
                   stderr, dataEvents, ffmpegCode, peer, batch>>

\* the request has been answered and its processes are gone; the next request
\* arrives.  What stays is what the process and the output directory keep:
\* the output paths handed out so far and the files encoders have produced
NextRequest ==
    /\ req.returned
    /\ pc \in {"answered", "done"}
    /\ req.served < MaxRequests - 1
    /\ \E scenario \in Scenarios, url \in VideoUrls :
          req' = [Arrived(scenario, url, req.library) EXCEPT
                    !.served = req.served + 1,
                    !.issued = req.issued \cup
                               (IF req.outputPath = <<>> THEN {} ELSE {req.outputPath}),
                    !.produced = req.produced \cup
                               (IF outcome = "resolved" THEN {args.output} ELSE {})]
    /\ caption' \in ServerCaptions
    /\ pc' = "request"
    /\ lines' = <<>>
    /\ probeCode' = -1
    /\ probeOut' = NoOutput
    /\ duration' = NoNum
    /\ trimmedDuration' = NoNum
    /\ fontFile' = ""
    /\ startY' = 0
    /\ filterParts' = <<>>
    /\ args' = NoArgs
    /\ probeSpawns' = 0
    /\ ffmpegSpawns' = 0
    /\ ffmpeg' = "none"
    /\ outcome' = "pending"
    /\ result' = NoResult
    /\ stderr' = <<>>
    /\ dataEvents' = 0
    /\ ffmpegCode' = 0
    /\ response' = NoResponse
    /\ UNCHANGED <<maxChars, fs, peer, batch>>

InitServer ==
    /\ pc = "request"
    /\ caption \in ServerCaptions
    /\ maxChars = CaptionBudget
    /\ lines = <<>>
    /\ GenIdle
    /\ peer = NoPeer
    /\ req \in { Arrived(scenario, url, library) :
                    scenario \in Scenarios, url \in VideoUrls, library \in Libraries }
    /\ batch = NoBatch

NextServer == Handle \/ Next \/ NextRequest

SpecServer == InitServer /\ [][NextServer]_vars

\* ------------------------------------------ escapeText called on its own
Reserved == {"'", ":", "[", "]"}

EscapeTexts == TextsUpTo(Reserved \cup {BS, "a"}, MaxEscLen)

InitEscape ==
    /\ pc = "escape_call"
    /\ caption \in EscapeTexts
    /\ maxChars = CaptionBudget
    /\ lines = <<>>
    /\ GenIdle
    /\ peer = NoPeer
    /\ req = DirectCall
    /\ batch = NoBatch

\* const escapedLine = escapeText(line)
EscapeText ==
    /\ pc = "escape_call"
    /\ lines' = <<escapeText(caption)>>
    /\ pc' = "escape_done"
    /\ UNCHANGED <<caption, maxChars, genVars, peer, req, batch>>

NextEscape == EscapeText

SpecEscape == InitEscape /\ [][NextEscape]_vars

\* ------------------------------------------- POST /generate, generateBatch
\* caption types that pass the handler's validation
Kinds == {"neg", "pos"}

\* the `type` of each caption of the request, in order (the handler rejects an
\* empty list and any other type before generateBatch is called)
BatchCaptions == UNION { [1..n -> Kinds] : n \in 1..MaxCaptions }

\* batch_id of the request, or uuidv4().substring(0, 8)
BatchIds == {"b1", "5e6f7a8b"}

\* `${batchId}_${kind}_${i + 1}.png` for the caption at index n - 1
ImageName(batchId, kind, n) == <<batchId, "_", kind, "_", n, ".png">>

\* what results.push adds for the caption at index n - 1
ImageResult(b, n) ==
    [index |-> n, type |-> b.captions[n],
     filename |-> ImageName(b.batchId, b.captions[n], n)]

\* generateBatch has been called; `i` counts the captions done, `files` is
\* what the call has written to the output directory
BatchCalled(captions, batchId) ==
    [state |-> "running", captions |-> captions, batchId |-> batchId, i |-> 0,
     results |-> <<>>, files |-> {}, response |-> NoResponse, images |-> <<>>]

\* mutant of GenerateOne: a caption that fails is skipped and the loop goes on
GenerateOneSkipping ==
    /\ batch.state = "running"
    /\ batch.i < Len(batch.captions)
    /\ LET n == batch.i + 1
           kind == batch.captions[n]
           name == ImageName(batch.batchId, kind, n)
       IN \/ batch' = [batch EXCEPT !.files = @ \cup {name},
                                    !.results = Append(@, ImageResult(batch, n)),
                                    !.i = n]
          \/ batch' = [batch EXCEPT !.i = n]
    /\ UNCHANGED <<ownVars, peer, req>>

\* one turn of the for loop: the type check, generateCollage, toFile, push.
\* generateCollage can throw (folder missing, no images, image library error)
\* and so can toFile; a failed toFile may or may not leave a file behind
GenerateOne ==
    /\ batch.state = "running"
    /\ batch.i < Len(batch.captions)
    /\ LET n == batch.i + 1
           kind == batch.captions[n]
           name == ImageName(batch.batchId, kind, n)
       IN IF kind \notin Kinds
          THEN batch' = [batch EXCEPT !.state = "thrown"]
          ELSE \/ batch' = [batch EXCEPT !.files = @ \cup {name},
                                         !.results = Append(@, ImageResult(batch, n)),
                                         !.i = n]
               \/ batch' = [batch EXCEPT !.state = "thrown"]
               \/ batch' = [batch EXCEPT !.state = "thrown", !.files = @ \cup {name}]
    /\ UNCHANGED <<ownVars, peer, req>>

\* the loop is over: return results
BatchReturn ==
    /\ batch.state = "running"
    /\ batch.i = Len(batch.captions)
    /\ batch' = [batch EXCEPT !.state = "returned"]
    /\ UNCHANGED <<ownVars, peer, req>>

\* POST /generate after `await generateBatch(...)`
RespondBatch ==
    /\ batch.state \in {"returned", "thrown"}
    /\ batch.response = NoResponse
    /\ batch' =
          IF batch.state = "returned"
          THEN [batch EXCEPT !.response = [status |-> 200, error |-> "", detail |-> "",
                                           failedStep |-> ""],
                             !.images = batch.results]
          ELSE [batch EXCEPT !.response = [status |-> 500, error |-> "GENERATION_FAILED",
                                           detail |-> "error.message",
                                           failedStep |-> "generate"]]
    /\ UNCHANGED <<ownVars, peer, req>>

InitBatch ==
    /\ pc = "batch"
    /\ caption = <<>>
    /\ maxChars = CaptionBudget
    /\ lines = <<>>
    /\ GenIdle
    /\ peer = NoPeer
    /\ req = DirectCall
    /\ batch \in { BatchCalled(captions, batchId) :
                      captions \in BatchCaptions, batchId \in BatchIds }

NextBatch == GenerateOne \/ BatchReturn \/ RespondBatch

SpecBatch == InitBatch /\ [][NextBatch]_vars

\* ------------------------------------------- wrapText called on its own
InitWrap ==
    /\ pc = "wrap_call"
    /\ caption \in WrapCaptions
    /\ maxChars \in WrapBudgets
    /\ lines = <<>>
    /\ GenIdle
    /\ peer = NoPeer
    /\ req = DirectCall
    /\ batch = NoBatch

WrapText ==
    /\ pc = "wrap_call"
    /\ lines' = wrapText(caption, maxChars)
    /\ pc' = "wrap_done"
    /\ UNCHANGED <<caption, maxChars, genVars>>
    /\ UNCHANGED <<peer, req, batch>>

NextWrap == WrapText

SpecWrap == InitWrap /\ [][NextWrap]_vars

\* ======================================================== claims: wrapText
NoDoubleSpace(c) == \A i \in 1..(Len(c) - 1) : ~(c[i] = SP /\ c[i + 1] = SP)

NoEdgeSpace(c) == c = <<>> \/ (c[1] # SP /\ c[Len(c)] # SP)

\* w occurs in c as a maximal run of non-space characters (a whole word of c)
IsWholeWordOf(w, c) ==
    /\ w # <<>>
    /\ SP \notin Range(w)
    /\ \E p \in 1..Len(c) :
          /\ p + Len(w) - 1 <= Len(c)
          /\ SubSeq(c, p, p + Len(w) - 1) = w
          /\ (p = 1 \/ c[p - 1] = SP)
          /\ (p + Len(w) - 1 = Len(c) \/ c[p + Len(w)] = SP)

\* C1: every line returned by wrapText is at most maxCharsPerLine long, except
\* a line that is exactly one whole word of the caption longer than the budget.
C1_LinesWithinBudget ==
    pc = "wrap_done" =>
        \A i \in 1..Len(lines) :
            \/ Len(lines[i]) <= maxChars
            \/ (Len(lines[i]) > maxChars /\ IsWholeWordOf(lines[i], caption))

\* an over-long word sits alone on its line next to an ordinary line
C1_Witness ==
    /\ pc = "wrap_done"
    /\ maxChars >= 1
    /\ \E i, j \in 1..Len(lines) :
          /\ Len(lines[i]) > maxChars
          /\ Len(lines[j]) <= maxChars

\* C2 (as claimed): for every caption without two consecutive spaces, leading
\* or trailing space included, the lines joined by single spaces give the
\* caption back.
C2_JoinReconstructs_AsClaimed ==
    (pc = "wrap_done" /\ NoDoubleSpace(caption)) =>
        JoinWith(lines, <<SP>>) = caption

\* C2 (amended): for every caption without two consecutive spaces that neither
\* begins nor ends with a space, the lines joined by single spaces give the
\* caption back.
C2_JoinReconstructs ==
    (pc = "wrap_done" /\ NoDoubleSpace(caption) /\ NoEdgeSpace(caption)) =>
        JoinWith(lines, <<SP>>) = caption

\* a caption of several words is wrapped onto more than one line and one of
\* the lines holds more than one word
C2_Witness ==
    /\ pc = "wrap_done"
    /\ NoDoubleSpace(caption) /\ NoEdgeSpace(caption)
    /\ Len(lines) >= 2
    /\ \E i \in 1..Len(lines) : SP \in Range(lines[i])

FiveWordList == <<Rep("a", 10), Rep("b", 10), Rep("c", 10), Rep("d", 10), Rep("e", 10)>>

\* the first line holds the longest prefix of whole words that fits in 28
FirstLineGreedy ==
    \E n \in 1..5 :
        /\ lines[1] = JoinWith(SubSeq(FiveWordList, 1, n), <<SP>>)
        /\ Len(lines[1]) <= 28
        /\ n < 5 => Len(JoinWith(SubSeq(FiveWordList, 1, n + 1), <<SP>>)) > 28

\* C3 (as claimed): five 10-character words under a 28-character budget wrap
\* to exactly 2 lines, the first holding as many whole words as fit.
C3_FiveWords_AsClaimed ==
    (pc = "wrap_done" /\ caption = FiveWords /\ maxChars = 28) =>
        (Len(lines) = 2 /\ FirstLineGreedy)

\* C3 (amended): five 10-character words under a 28-character budget wrap to
\* exactly 3 lines (2 + 2 + 1 words), the first holding as many whole words as
\* fit without exceeding 28 characters.
C3_FiveWords ==
    (pc = "wrap_done" /\ caption = FiveWords /\ maxChars = 28) =>
        /\ Len(lines) = 3
        /\ FirstLineGreedy
        /\ lines = << JoinWith(SubSeq(FiveWordList, 1, 2), <<SP>>),
                      JoinWith(SubSeq(FiveWordList, 3, 4), <<SP>>),
                      FiveWordList[5] >>

C3_Witness == pc = "wrap_done" /\ caption = FiveWords /\ maxChars = 28

\* =================================================== claims: generateVideo
\* the stages have been built and the encoder has been spawned with them
Built == pc \in {"encoding", "done"} /\ ffmpegSpawns = 1

TextStageIndexes == { i \in 1..Len(filterParts) : filterParts[i].op = "drawtext" }

DistinctOutputs ==
    \A i, j \in 1..Len(filterParts) :
        i # j => filterParts[i].out # filterParts[j].out

InputsDefinedEarlier ==
    \A i \in 1..Len(filterParts) :
        \A n \in 1..Len(filterParts[i].ins) :
            \/ filterParts[i].ins[n] = SourceStream
            \/ \E j \in 1..(i - 1) : filterParts[j].out = filterParts[i].ins[n]

\* C4: an empty caption is laid out as exactly one line, the empty string, and
\* its pipeline has the (blank) text stage that produces the banner buffer.
C4_EmptyCaptionOneLine ==
    (Built /\ caption = <<>>) =>
        /\ lines = << <<>> >>
        /\ \E i \in TextStageIndexes :
              filterParts[i].out = L("banner") /\ filterParts[i].text = <<>>
        /\ InputsDefinedEarlier

\* C5: for every probe result and every non-empty caption (a caption of spaces
\* only included) the stages have pairwise distinct output labels and every
\* input label other than the source stream is the output of an earlier stage.
C5_LabelsWellFormed ==
    (Built /\ caption # <<>>) => (DistinctOutputs /\ InputsDefinedEarlier)

\* C6: the last stage is the fade stage with output label out, no other stage
\* outputs out, and the encoder's video mapping is exactly [out].
C6_TerminalOut ==
    Built =>
        /\ Len(filterParts) >= 1
        /\ filterParts[Len(filterParts)].op = "fade"
        /\ filterParts[Len(filterParts)].out = L("out")
        /\ \A i \in 1..(Len(filterParts) - 1) : filterParts[i].out # L("out")
        /\ args.map = <<L("out")>>
        /\ args.filter_complex = filterParts

C6_Witness == Built /\ Len(lines) >= 2 /\ outcome = "resolved"

\* every text line's band of lineHeight pixels around its centre y lies inside
\* the banner, and the block starts at or below the banner's top edge
TextInsideBanner ==
    /\ startY >= 0
    /\ \A i \in 1..Len(lines) :
          /\ startY + (i - 1) * lineHeight >= 0
          /\ startY + i * lineHeight <= BANNER_HEIGHT
    /\ \A i \in TextStageIndexes :
          /\ 2 * filterParts[i].y - lineHeight >= 0
          /\ 2 * filterParts[i].y + lineHeight <= 2 * BANNER_HEIGHT

\* C7 (as claimed): for every caption the text never overflows the banner.
C7_NoOverflow_AsClaimed == Built => TextInsideBanner

\* C7 (amended): for every caption that wraps to at most 5 lines the text
\* never overflows the banner: startY >= 0 and every line's band lies within
\* [0, 346].
C7_NoOverflowUpTo5 == (Built /\ Len(lines) <= 5) => TextInsideBanner

C7_Witness == Built /\ Len(lines) = 5 /\ startY = 23

\* C8: startY is exactly (346 - 60k)/2 (143, 113, 83 for k = 1, 2, 3), line i
\* is drawn at vertical centre startY + 60i + 30, and "Hello world" gives the
\* single line "Hello world" with startY = 143.
C8_StartYExact ==
    Built =>
        /\ 2 * startY = 346 - 60 * Len(lines)
        /\ Len(lines) = 1 => startY = 143
        /\ Len(lines) = 2 => startY = 113
        /\ Len(lines) = 3 => startY = 83
        /\ Cardinality(TextStageIndexes) = Len(lines)
        /\ \A i \in 1..Len(lines) :
              /\ filterParts[3 + i].op = "drawtext"
              /\ filterParts[3 + i].y = startY + 60 * (i - 1) + 30
        /\ caption = HelloWorld =>
              (lines = <<HelloWorld>> /\ startY = 143 /\ filterParts[4].y = 173)

C8_Witness == Built /\ caption = HelloWorld /\ Len(lines) = 1

NoDurationReported ==
    /\ probeCode = 0
    /\ probeOut.json = "object"
    /\ probeOut.format = Undefined
    /\ probeOut.stream = Undefined

\* C9: when the probe exits 0 with well-formed output that has no duration at
\* either level, the duration is 30 seconds, the call is not rejected by the
\* probe and it goes on to build the stages and spawn the encoder.
C9_FallbackDuration ==
    NoDurationReported =>
        /\ duration = Num(30)
        /\ pc \in {"probed", "encoding", "done"}
        /\ pc = "probed" => outcome = "pending"
        /\ outcome = "rejected" => result.kind \in {"ffmpeg failed", "ffmpeg spawn error"}
        /\ pc \in {"encoding", "done"} =>
              /\ ffmpegSpawns = 1
              /\ trimmedDuration = Num(30)
              /\ filterParts # <<>>
              /\ args.filter_complex = filterParts

C9_Witness ==
    NoDurationReported /\ Built /\ caption = HelloWorld /\ outcome = "resolved"

\* the probe closed with code 0 and its output was read as a metadata record
ProbeSucceeded == pc \in {"probed", "encoding", "done"} /\ probeCode = 0
                  /\ probeOut.json = "object"

ReportsZeroOrNone(x) ==
    x = Undefined \/ x = JNum(0) \/ x = JStr(<<"0">>)

\* C10: every record of a successful probe has duration > 0, and a reported
\* duration of 0 (number or text "0") or none is replaced by the fallback.
C10_DurationPositive ==
    ProbeSucceeded =>
        /\ ~duration.nan /\ duration.v > 0
        /\ (ReportsZeroOrNone(probeOut.format) /\ ReportsZeroOrNone(probeOut.stream))
              => duration = Num(FallbackDuration)

\* the value is a number of seconds that is at least 1
AtLeastOneSecond(x) == ~x.nan /\ x.v >= 1

\* C11: for every probe result the trimmed duration is max(1, duration -
\* trimStart - trimEnd), is never below 1 second, and is the duration of the
\* bg canvas, of the banner_bg canvas and of the encoder's -t argument.
C11_TrimmedDuration ==
    Built =>
        /\ AtLeastOneSecond(trimmedDuration)
        /\ (~duration.nan /\ duration.v - TRIM_START - TRIM_END >= 1)
              => trimmedDuration = Num(duration.v - TRIM_START - TRIM_END)
        /\ (~duration.nan /\ duration.v - TRIM_START - TRIM_END < 1)
              => trimmedDuration = Num(1)
        /\ filterParts[2].out = L("bg") /\ filterParts[2].d = trimmedDuration
        /\ filterParts[3].out = L("banner_bg") /\ filterParts[3].d = trimmedDuration
        /\ args.t = trimmedDuration

\* the ffprobe process has closed
ProbeClosed == probeCode # -1

\* the probe's output is not readable as a metadata record: JSON.parse throws,
\* or the parsed value is null
Unparseable(out) == out.json \in {"invalid", "null"}

ProbeErrorKinds == {"ffprobe exited with code", "Failed to parse ffprobe output"}

RejectedByProbe == outcome = "rejected" /\ result.kind \in ProbeErrorKinds

\* C12: once the probe process has closed, generateVideo is rejected with a
\* probe error exactly when it exited non-zero or exited 0 with unparseable
\* output; in every other case a metadata record with a duration is returned.
C12_ProbeFailsExactly ==
    ProbeClosed =>
        /\ RejectedByProbe <=> (probeCode # 0 \/ Unparseable(probeOut))
        /\ probeCode # 0 =>
              (result.kind = "ffprobe exited with code" /\ result.code = probeCode)
        /\ (probeCode = 0 /\ Unparseable(probeOut)) =>
              result.kind = "Failed to parse ffprobe output"
        /\ RejectedByProbe => (pc = "done" /\ duration = NoNum)
        /\ ~RejectedByProbe =>
              (pc \in {"probed", "encoding", "done"} /\ duration # NoNum)

C12_Witness ==
    /\ ProbeClosed /\ RejectedByProbe
    /\ probeCode = 0 /\ probeOut.json = "invalid"

\* C13 (as claimed): a probe failure is recovered locally with the fallback
\* duration and not surfaced: the request goes on to build and encode.
C13_ProbeFailureRecovered_AsClaimed ==
    (ProbeClosed /\ (probeCode # 0 \/ Unparseable(probeOut))) =>
        /\ ~RejectedByProbe
        /\ duration = Num(FallbackDuration)
        /\ pc \in {"probed", "encoding", "done"}

\* C13 (amended): a probe that exits non-zero or whose output is unparseable
\* is not recovered: generateVideo rejects with the probe's error, no fallback
\* duration is substituted, no stage is built, the encoder is never spawned and
\* the caller is answered 500.
C13_ProbeFailureSurfaced ==
    (ProbeClosed /\ (probeCode # 0 \/ Unparseable(probeOut))) =>
        /\ RejectedByProbe
        /\ duration = NoNum /\ trimmedDuration = NoNum
        /\ filterParts = <<>> /\ args = NoArgs
        /\ ffmpegSpawns = 0 /\ ffmpeg = "none"
        /\ response # NoResponse =>
              (response.status = 500 /\ response.detail = result.kind)

C13_Witness ==
    /\ ProbeClosed /\ probeCode = 1 /\ RejectedByProbe
    /\ response.status = 500

\* ================================================= claims: encoder failure
\* sub occurs in s
Contains(s, sub) ==
    \E i \in 1..(Len(s) - Len(sub) + 1) : SubSeq(s, i, i + Len(sub) - 1) = sub

IsSuffixOf(t, s) ==
    /\ Len(t) <= Len(s)
    /\ \A i \in 1..Len(t) : t[i] = s[Len(s) - Len(t) + i]

\* the encoder ran and exited with a non-zero code
EncoderExitedNonZero == pc = "done" /\ ffmpeg = "closed" /\ ffmpegCode > 0

\* C14 (as claimed): on a non-zero exit the caller's error carries the exit
\* code and the stderr tail, and for exit 1 with "No such filter" anywhere in
\* stderr the error contains that substring.
C14_EncodeError_AsClaimed ==
    EncoderExitedNonZero =>
        /\ outcome = "rejected"
        /\ result.kind = "ffmpeg failed"
        /\ result.code = ffmpegCode
        /\ IsSuffixOf(result.detail, stderr)
        /\ (ffmpegCode = 1 /\ Contains(stderr, NoSuchFilter))
              => Contains(result.detail, NoSuchFilter)

\* C14 (amended): on a non-zero exit the caller receives the error "ffmpeg
\* failed" carrying the last 500 characters of stderr and no exit code; for
\* exit 1 with "No such filter" inside the last 500 characters of stderr the
\* error contains that substring.
C14_EncodeErrorTail ==
    EncoderExitedNonZero =>
        /\ outcome = "rejected"
        /\ result.kind = "ffmpeg failed"
        /\ result.code = 0
        /\ IsSuffixOf(result.detail, stderr)
        /\ Len(result.detail) = (IF Len(stderr) <= 500 THEN Len(stderr) ELSE 500)
        /\ \A i \in 1..(Len(stderr) - Len(NoSuchFilter) + 1) :
              (/\ ffmpegCode = 1
               /\ SubSeq(stderr, i, i + Len(NoSuchFilter) - 1) = NoSuchFilter
               /\ i > Len(stderr) - 500)
              => Contains(result.detail, NoSuchFilter)
        /\ response # NoResponse =>
              (response.status = 500 /\ response.detail = "ffmpeg failed")

\* stderr is longer than the tail and the message is still inside the tail
C14_Witness ==
    /\ EncoderExitedNonZero /\ ffmpegCode = 1
    /\ Len(stderr) > 500
    /\ Contains(result.detail, NoSuchFilter)

\* the encoder process could not be launched ('error' was emitted)
EncoderLaunchFailed == ffmpeg = "errored" \/ ffmpegCode < 0

\* C15: if the encoder cannot be launched, generateVideo is rejected with the
\* spawn error (not the non-zero-exit error) as soon as 'error' is emitted, and
\* the encoder is not launched a second time.
C15_SpawnErrorSurfaced ==
    EncoderLaunchFailed =>
        /\ outcome = "rejected"
        /\ result.kind = "ffmpeg spawn error"
        /\ result.kind # "ffmpeg failed"
        /\ ffmpegSpawns = 1
        /\ response # NoResponse =>
              (response.status = 500 /\ response.detail = "ffmpeg spawn error")

\* the caller has been answered before the failed process closed
C15_Witness ==
    /\ ffmpeg = "errored" /\ pc = "encoding"
    /\ outcome = "rejected"
    /\ response.status = 500

\* ====================================================== claims: the caller
\* the probe succeeded and the encoder ran and exited with code 0
GenerationSucceeded ==
    /\ ProbeClosed /\ probeCode = 0 /\ ~Unparseable(probeOut)
    /\ pc = "done" /\ ffmpeg = "closed" /\ ffmpegCode = 0

\* C16: when the probe succeeds and the encoder exits 0, the generator gives
\* its caller the output path together with a metrics record (steps probe and
\* encode, each with a duration).
C16_ResultWithMetrics ==
    GenerationSucceeded =>
        /\ outcome = "resolved"
        /\ result.value = args.output
        /\ HasMetrics(result)

EncoderErrorKinds == {"ffmpeg failed", "ffmpeg spawn error"}

\* the caller has been answered for a call that generateVideo rejected
FailureAnswered == response # NoResponse /\ outcome = "rejected"

DejaVu == "/usr/share/fonts/truetype/dejavu/DejaVuSans.ttf"
Helvetica == "/System/Library/Fonts/Helvetica.ttc"
SFNSText == "/System/Library/Fonts/SFNSText.ttf"

\* C18: font resolution never fails: the configured path is used when it
\* exists, otherwise the first existing fallback in list order, otherwise the
\* family name sans, and in every case the stages are built with that font
\* and the encoder is launched.
C18_FontResolution ==
    /\ pc = "probed" => outcome = "pending"
    /\ Built =>
        /\ FONT_PATH \in fs => fontFile = FONT_PATH
        /\ (FONT_PATH \notin fs /\ DejaVu \in fs) => fontFile = DejaVu
        /\ (FONT_PATH \notin fs /\ DejaVu \notin fs /\ Helvetica \in fs)
              => fontFile = Helvetica
        /\ (FONT_PATH \notin fs /\ DejaVu \notin fs /\ Helvetica \notin fs
              /\ SFNSText \in fs) => fontFile = SFNSText
        /\ fs = {} => fontFile = "sans"
        /\ fontFile \in fs \cup {"sans"}
        /\ \A i \in TextStageIndexes : filterParts[i].fontfile = fontFile
        /\ ffmpegSpawns = 1
        /\ outcome = "rejected" => result.kind \in EncoderErrorKinds

\* neither the configured font nor any fallback exists, and the call succeeds
C18_Witness ==
    /\ Built /\ fs = {} /\ fontFile = "sans"
    /\ Len(lines) >= 1
    /\ outcome = "resolved"

\* =========================================================== claims: spawns
\* C19: within one request ffprobe is spawned at most once and ffmpeg at most
\* once on every path; a failed process is never launched again.
C19_NoRetry ==
    /\ probeSpawns <= 1
    /\ ffmpegSpawns <= 1
    /\ pc = "call" => (probeSpawns = 0 /\ ffmpegSpawns = 0)
    /\ pc \in {"probing", "probed", "crashed"} => (probeSpawns = 1 /\ ffmpegSpawns = 0)
    /\ RejectedByProbe => (probeSpawns = 1 /\ ffmpegSpawns = 0)
    /\ (outcome = "rejected" /\ result.kind \in EncoderErrorKinds)
          => (probeSpawns = 1 /\ ffmpegSpawns = 1)
    /\ (pc = "done" /\ outcome = "rejected") => ffmpeg \in {"none", "closed"}

\* the encoder exited non-zero, the call was rejected and nothing was relaunched
C19_Witness ==
    /\ pc = "done" /\ outcome = "rejected" /\ result.kind = "ffmpeg failed"
    /\ ffmpegCode = 1
    /\ probeSpawns = 1 /\ ffmpegSpawns = 1
    /\ response.status = 500

\* ===================================================== claims: concurrency
\* the pipeline and arguments of a call that spawned its encoder are the ones
\* its own probe determines
TrimOf(d) == MathMax(Num(1), Minus(Minus(d, Num(TRIM_START)), Num(TRIM_END)))

PipelineOf(d) ==
    LET ls == wrapText(caption, CaptionBudget)
    IN BuildFilterParts(ls, StartY(Len(ls)), TrimOf(d), ResolveFont(FONT_PATH, fs))

PeerBuilt == peer.pc \in {"encoding", "done"} /\ peer.ffmpegSpawns = 1

OwnPipeline ==
    /\ Built =>
          /\ filterParts = PipelineOf(duration)
          /\ args = EncoderArgs(filterParts, TrimOf(duration))
    /\ PeerBuilt =>
          /\ peer.filterParts = PipelineOf(peer.duration)
          /\ peer.args = [EncoderArgs(peer.filterParts, TrimOf(peer.duration))
                             EXCEPT !.output = PEER_OUTPUT_PATH]
    /\ (Built /\ PeerBuilt) => args.output # peer.args.output
    /\ (Built /\ PeerBuilt /\ duration = peer.duration) =>
          /\ filterParts = peer.filterParts
          /\ args = [peer.args EXCEPT !.output = OUTPUT_PATH]

\* the outcome of a call is the one its own probe and encoder events decide
OwnOutcome ==
    /\ outcome = "resolved" =>
          (probeCode = 0 /\ ffmpegCode = 0 /\ ffmpeg = "closed"
              /\ result.value = OUTPUT_PATH)
    /\ (outcome = "rejected" /\ result.kind \in ProbeErrorKinds) =>
          (probeCode # 0 \/ Unparseable(probeOut))
    /\ (outcome = "rejected" /\ result.kind \in EncoderErrorKinds) =>
          (ffmpeg = "errored" \/ ffmpegCode # 0)
    /\ peer.outcome = "resolved" =>
          (peer.probeCode = 0 /\ peer.ffmpegCode = 0 /\ peer.ffmpeg = "closed"
              /\ peer.result.value = PEER_OUTPUT_PATH)
    /\ (peer.outcome = "rejected" /\ peer.result.kind \in ProbeErrorKinds) =>
          (peer.probeCode # 0 \/ Unparseable(peer.probeOut))
    /\ (peer.outcome = "rejected" /\ peer.result.kind \in EncoderErrorKinds) =>
          (peer.ffmpeg = "errored" \/ peer.ffmpegCode # 0)

\* a call that has started and runs alone stops without settling only where
\* its own probe failed to launch: that probe has not closed and no encoder
\* has been spawned
StoppedAsAlone ==
    /\ (pc = "crashed" /\ probeSpawns = 1) =>
          (probeCode = -1 /\ ffmpegSpawns = 0)
    /\ (peer.pc = "crashed" /\ peer.probeSpawns = 1) =>
          (peer.probeCode = -1 /\ peer.ffmpegSpawns = 0)

\* C20: two concurrent calls with the same input, caption and font and
\* distinct output paths do not interfere: in every interleaving each call's
\* pipeline, encoder arguments and outcome are those of the call run alone.
C20_NoInterference == OwnPipeline /\ OwnOutcome /\ StoppedAsAlone

\* ======================================================== claims: handler
\* the handler has named this request's output file
Named == req.outputPath # <<>>

\* C21: no two /generate-video requests are given the same output path, and
\* no encoder is started on a file that an earlier request's encoder produced.
C21_OutputPathsDistinct ==
    /\ Named => req.outputPath \notin req.issued
    /\ (Named /\ ffmpegSpawns = 1) => args.output \notin req.produced

\* scenario and caption are both present and the handler has run
ValidParamsHandled == pc # "request" /\ req.scenario # "" /\ caption # <<>>

NotInLibrary == req.video_url = "" /\ req.scenario \notin req.library

\* C22: with scenario and caption present the answer is 404 VIDEO_NOT_FOUND
\* exactly when no video_url is given and the scenario has no library file, and
\* then nothing is spawned; a given video_url skips the lookup and is the input.
C22_LookupFailure ==
    ValidParamsHandled =>
        /\ (response.status = 404) <=> NotInLibrary
        /\ NotInLibrary =>
              /\ response = VideoNotFound
              /\ pc = "answered"
              /\ probeSpawns = 0 /\ ffmpegSpawns = 0
              /\ ~Named
        /\ req.video_url # "" =>
              /\ Named
              /\ req.inputPath = <<req.video_url>>
              /\ ffmpegSpawns = 1 => args.i = <<req.video_url>>
        /\ (req.video_url = "" /\ req.scenario \in req.library) =>
              /\ req.inputPath = LibraryFile(req.scenario)
              /\ ffmpegSpawns = 1 => args.i = LibraryFile(req.scenario)

C22_Witness ==
    /\ ValidParamsHandled /\ NotInLibrary
    /\ response.status = 404 /\ response.failedStep = "lookup"
    /\ req.sent = 1

\* C23: when a valid request's probe succeeds and its encoder exits 0 the
\* response is a 200 success, never a 500 VIDEO_GENERATION_FAILED.
C23_SuccessAnswered200 ==
    (ValidParamsHandled /\ GenerationSucceeded /\ req.returned) =>
        /\ response.status = 200
        /\ response.error # "VIDEO_GENERATION_FAILED"
        /\ response.failedStep = ""

\* ========================================================= claims: order
ProbeFailed ==
    \/ pc = "crashed"
    \/ ProbeClosed /\ (probeCode # 0 \/ Unparseable(probeOut))

\* C24: the encoder is spawned only after the probe has closed with code 0
\* and its output has been parsed; after any probe failure no encoder is
\* spawned, so nothing is written to the output path.
C24_EncodeAfterProbe ==
    /\ (ffmpegSpawns > 0 \/ ffmpeg # "none" \/ args # NoArgs) =>
          /\ probeSpawns = 1
          /\ ProbeClosed /\ probeCode = 0 /\ probeOut.json = "object"
          /\ duration = ProbedDuration(probeOut)
          /\ pc \in {"encoding", "done"}
    /\ pc \in {"call", "probing", "probed"} => (ffmpegSpawns = 0 /\ ffmpeg = "none")
    /\ ProbeFailed =>
          /\ ffmpegSpawns = 0 /\ ffmpeg = "none" /\ args = NoArgs
          /\ outcome # "resolved"

C24_Witness ==
    /\ pc = "encoding" /\ ffmpeg = "running" /\ caption = FiveWords
    /\ probeCode = 0 /\ probeOut.json = "object"

\* ========================================================= claims: chain
\* C25: for k >= 1 lines the text stages form one chain: line 0 reads
\* banner_bg, line i > 0 reads exactly the output of line i-1, the intermediate
\* outputs are banner_0 .. banner_(k-2), the last output is banner, and the
\* stages are serialized in append order: scaled, bg, banner_bg, the k text
\* stages, with_video, composed, out.
C25_TextChain ==
    (Built /\ Len(lines) >= 1) =>
        LET k == Len(lines)
        IN /\ Len(filterParts) = k + 6
           /\ args.filter_complex = filterParts
           /\ filterParts[1].out = L("scaled")
           /\ filterParts[2].out = L("bg")
           /\ filterParts[3].out = L("banner_bg")
           /\ TextStageIndexes = 4..(k + 3)
           /\ filterParts[4].ins = <<L("banner_bg")>>
           /\ \A n \in 2..k : filterParts[n + 3].ins = <<filterParts[n + 2].out>>
           /\ \A n \in 1..(k - 1) : filterParts[n + 3].out = BannerI(n - 1)
           /\ filterParts[k + 3].out = L("banner")
           /\ filterParts[k + 4].out = L("with_video")
           /\ filterParts[k + 5].out = L("composed")
           /\ filterParts[k + 5].ins = <<L("with_video"), L("banner")>>
           /\ filterParts[k + 6].out = L("out")

C25_Witness == Built /\ Len(lines) = 3 /\ pc = "done" /\ ffmpegCode = 0

\* ======================================================== claims: escaping
\* what one character of a line must become
EscapedChar(c) ==
    IF c = BS THEN <<BS, BS, BS, BS>>
    ELSE IF c \in Reserved THEN <<BS, c>>
    ELSE <<c>>

RECURSIVE EachEscaped(_)
EachEscaped(t) ==
    IF t = <<>> THEN <<>> ELSE EscapedChar(Head(t)) \o EachEscaped(Tail(t))

\* number of consecutive backslashes that end at position i of s
RECURSIVE BackslashRun(_, _)
BackslashRun(s, i) ==
    IF i >= 1 /\ s[i] = BS THEN 1 + BackslashRun(s, i - 1) ELSE 0

\* C26: escapeText, applied once to a line, leaves no reserved character
\* unescaped: every quote, colon and bracket of the output is preceded by one
\* escaping backslash, every backslash of the input has become a run of four
\* that no later replacement touched, every other character is unchanged, and
\* distinct lines give distinct outputs.
C26_EscapeText ==
    pc = "escape_done" =>
        LET out == lines[1]
        IN /\ out = EachEscaped(caption)
           /\ TextStages(<<caption>>, StartY(1), FONT_PATH)[1].text = out
           /\ \A i \in 1..Len(out) :
                 /\ out[i] \in Reserved => BackslashRun(out, i - 1) % 4 = 1
                 /\ out[i] \notin Reserved \cup {BS} => BackslashRun(out, i - 1) % 4 = 0
           /\ BackslashRun(out, Len(out)) % 4 = 0
           /\ \A t \in EscapeTexts : t # caption => escapeText(t) # out

C26_Witness ==
    /\ pc = "escape_done"
    /\ caption = <<BS, "'", "]">>
    /\ lines = << <<BS, BS, BS, BS, BS, "'", BS, "]">> >>

\* ====================================================== claims: settlement
\* a step leaves a decided outcome and its value as they are
StaysSettled == outcome # "pending" => (outcome' = outcome /\ result' = result)

\* after a launch error followed by the close of the failed process the call
\* is still rejected with the launch error
ErrorThenClose == ffmpeg = "closed" /\ ffmpegCode < 0

\* C27: the promise of generateVideo is settled at most once: the first of
\* the encoder's error and close events decides, a later event never changes
\* the outcome, never resolves a rejected call and never gives a second result.
C27_SettledOnce ==
    /\ [][StaysSettled]_vars
    /\ [](ErrorThenClose => (outcome = "rejected" /\ result.kind = "ffmpeg spawn error"))
    /\ []((outcome = "pending") <=> (result = NoResult))

C27_Witness ==
    /\ ErrorThenClose /\ pc = "done"
    /\ outcome = "rejected" /\ result.kind = "ffmpeg spawn error"
    /\ response = NoResponse

\* ======================================================= claims: responses
\* C28: every /generate-video request is answered exactly once on every path
\* of the handler (missing parameters, lookup failure, generation failure,
\* success): never twice, and never not at all once the handler has returned.
C28_ExactlyOneResponse ==
    /\ req.sent <= 1
    /\ req.returned <=> (req.sent = 1)
    /\ (response # NoResponse) <=> (req.sent = 1)
    /\ pc = "answered" <=> (req.returned /\ response.status \in {400, 404})
    /\ (req.scenario = "" \/ caption = <<>>) =>
          (pc = "request" \/ response = MissingParams)
    /\ (req.returned /\ outcome # "pending") => response.status \in {200, 500}

C28_Witness ==
    /\ ValidParamsHandled /\ req.served = 1
    /\ outcome = "rejected" /\ result.kind = "ffmpeg failed"
    /\ req.returned /\ req.sent = 1 /\ response.status = 500

\* ===================================================== claims: termination
\* C29: every generateVideo call eventually resolves or rejects, a launch
\* failure of the probe process included.
C29_EventuallySettles == <>(outcome # "pending")

\* every call that does not settle has stopped at the probe's launch failure
SettlesUnlessProbeLaunchFails == <>(outcome # "pending" \/ pc = "crashed")

\* ========================================================== claims: batch
\* the names of the image files of captions 1..k (indexes 0..k-1)
NamesUpTo(k) ==
    { ImageName(batch.batchId, batch.captions[n], n) : n \in 1..k }

\* C30: generateBatch goes through the captions in index order without
\* rollback: when caption i fails no later caption is processed, the files of
\* captions 0..i-1 stay, and /generate answers 500 GENERATION_FAILED without
\* listing them; on success there is exactly one result per caption, in
\* caption order, with pairwise distinct file names batchId_kind_(i+1).png.
C30_BatchInOrder ==
    batch.state # "absent" =>
        LET n == Len(batch.captions)
        IN /\ batch.i \in 0..n
           /\ batch.results = [k \in 1..batch.i |-> ImageResult(batch, k)]
           /\ NamesUpTo(batch.i) \subseteq batch.files
           /\ batch.files \subseteq NamesUpTo(IF batch.i < n THEN batch.i + 1 ELSE n)
           /\ batch.state = "thrown" =>
                 /\ batch.i < n
                 /\ batch.response # NoResponse =>
                       /\ batch.response.status = 500
                       /\ batch.response.error = "GENERATION_FAILED"
                       /\ batch.images = <<>>
           /\ batch.state = "returned" =>
                 /\ batch.i = n /\ Len(batch.results) = n
                 /\ \A j, k \in 1..n :
                       j # k => batch.results[j].filename # batch.results[k].filename
                 /\ batch.response # NoResponse =>
                       /\ batch.response.status = 200
                       /\ batch.images = batch.results

C30_Witness ==
    /\ batch.state = "thrown" /\ Len(batch.captions) = 3 /\ batch.i = 1
    /\ batch.files = NamesUpTo(1)
    /\ batch.response.status = 500

====
